---- MODULE Spec2Model ----
(***************************************************************************)
(* PyTorchDeRandomizedSmoothing                                            *)
(* (art/estimators/certification/derandomized_smoothing/pytorch.py).       *)
(*                                                                         *)
(* The estimator is modelled as a state machine.  A call of fit is a       *)
(* sequence of steps, one per statement group of the training loop; the    *)
(* collaborators (model, loss, optimizer, ablator) are recording doubles:  *)
(* every call made on them is appended to `log`.  Arrays are sequences;    *)
(* sample indices keep numpy's 0-based values.                             *)
(***************************************************************************)
EXTENDS Integers, Sequences, FiniteSets, TLC

(* ---- bounds of the model ---- *)
MaxN == 3          \* largest training set
MaxBatch == 3      \* largest batch_size
MaxEpochs == 2     \* largest nb_epochs
MaxPredict == 2    \* largest number of samples in a predict call
MaxPositions == 2  \* ablation positions visited by one predict call

(* ---- input domains ---- *)
None == "None"
NbClasses == 2
XVals == {1, 2}
\* labelled training samples <<input, label>> the training sets are drawn from
TrainPool == {<<1, 0>>, <<2, 1>>}
Logits == {0, 2}
\* <<ablation_type, ablation_size>> configurations
Ablations == {<<"column", 1>>, <<"block", 2>>}
\* threshold in hundredths: 0.50, 0.75
Thresholds == {50, 75}

VARIABLES
    optimizer,        \* self._optimizer: None or an optimizer object
    ablation_type,    \* attributes stored by the superclass constructor
    ablation_size,
    threshold,
    init_args,        \* the arguments the constructor was called with
    mode,             \* self._model.training
    grad_acc,         \* backward passes accumulated in .grad since the last zero_grad
    pc,               \* position of the call in progress
    x, y,             \* the caller's arrays of the call in progress
    batch_size, nb_epochs, training_mode,
    x_preprocessed, y_preprocessed, num_batch, ind,
    epoch, m,         \* loop counters of fit
    i_batch, o_batch,
    batches,          \* index slices taken for the inputs in the current epoch
    log,              \* calls made on the collaborators during the call in progress
    predict_mode,     \* training_mode handed to DeRandomizedSmoothingMixin.predict
    pos,              \* ablation positions done by the predict in progress
    outputs,          \* outputs of the last PyTorchClassifier.predict
    votes             \* return value of the last _predict_classifier

vars == <<optimizer, ablation_type, ablation_size, threshold, init_args, mode,
          grad_acc, pc, x, y, batch_size, nb_epochs, training_mode,
          x_preprocessed, y_preprocessed, num_batch, ind, epoch, m, i_batch,
          o_batch, batches, log, predict_mode, pos, outputs, votes>>

attrs == <<optimizer, ablation_type, ablation_size, threshold, init_args>>
fitLocals == <<x_preprocessed, y_preprocessed, num_batch, ind, epoch, m,
               i_batch, o_batch, batches>>
predictLocals == <<predict_mode, pos, outputs, votes>>

Min(a, b) == IF a < b THEN a ELSE b

(* ------------------------------------------------------------------ *)
(* Pure helpers                                                        *)
(* ------------------------------------------------------------------ *)

\* Python slice s[a:b] of a sequence (a, b >= 0), clamped to the length.
Slice(s, a, b) == SubSeq(s, a + 1, Min(b, Len(s)))

\* arr[idx] with an integer index array: a fresh array of the selected rows.
Gather(arr, idx) == [p \in 1 .. Len(idx) |-> arr[idx[p] + 1]]

\* np.arange(n)
Arange(n) == [p \in 1 .. n |-> p - 1]

\* x[i], x[j] = x[j], x[i] on a 1-D integer array: elements are scalars.
SwapElems_view(s, i, j) == [s EXCEPT ![i + 1] = s[j + 1]]
SwapElems(s, i, j) == [s EXCEPT ![i + 1] = s[j + 1], ![j + 1] = s[i + 1]]

\* random.shuffle: for i in reversed(range(1, len(x))): j = randbelow(i + 1); swap.
\* js[i] is the j drawn for i.
JChoices(n) == {f \in [1 .. (n - 1) -> 0 .. (n - 1)] : \A i \in 1 .. (n - 1) : f[i] <= i}

RECURSIVE ShuffleFrom(_, _, _)
ShuffleFrom(s, i, js) ==
    IF i < 1 THEN s ELSE ShuffleFrom(SwapElems(s, i, js[i]), i - 1, js)

Shuffle(s, js) == ShuffleFrom(s, Len(s) - 1, js)

\* int(np.ceil(len(x_preprocessed) / float(batch_size)))
NumBatch_floor(n, bs) == n \div bs
NumBatch(n, bs) == IF n % bs = 0 THEN n \div bs ELSE (n \div bs) + 1

\* ind[m * batch_size: (m + 1) * batch_size], as used for the inputs
InputSlice(s, mm, bs) == Slice(s, mm * bs, (mm + 1) * bs)

\* ind[m * batch_size: (m + 1) * batch_size], as used for the labels
LabelSlice_unshuffled(s, mm, bs) == Slice(Arange(Len(s)), mm * bs, (mm + 1) * bs)
LabelSlice(s, mm, bs) == Slice(s, mm * bs, (mm + 1) * bs)

\* np.copy(x_preprocessed[idx]): a buffer owning its memory (base = <<>>).
\* base lists, per row of the buffer, the row of x_preprocessed it shares.
TakeBatch_view(xp, idx) == [data |-> Gather(xp, idx), base |-> idx]
TakeBatch(xp, idx) == [data |-> Gather(xp, idx), base |-> <<>>]

\* The ablator masks the rows of the buffer it is given, in place.
Ablate(v, size) == 10 * size + v
AblatorForward(data, size) == [p \in 1 .. Len(data) |-> Ablate(data[p], size)]

\* The effect of an in-place write to a buffer on the array it shares memory with.
WriteThrough(xp, base, data) ==
    [k \in 1 .. Len(xp) |->
        IF \E p \in 1 .. Len(base) : base[p] + 1 = k
        THEN data[CHOOSE p \in 1 .. Len(base) : base[p] + 1 = k]
        ELSE xp[k]]

\* check_and_transform_label_format: index labels -> one-hot rows
OneHot(lab) == [c \in 1 .. NbClasses |-> IF c = lab + 1 THEN 1 ELSE 0]
TransformLabels(ys) == [p \in 1 .. Len(ys) |-> OneHot(ys[p])]

\* reduce_labels: one-hot rows -> index labels (argmax)
ArgMax(row) == CHOOSE c \in 0 .. (NbClasses - 1) :
                  \A d \in 0 .. (NbClasses - 1) : row[c + 1] >= row[d + 1]
ReduceLabels(ys) == [p \in 1 .. Len(ys) |-> ArgMax(ys[p])]

\* _apply_preprocessing with the default preprocessing=(0.0, 1.0)
Standardise(v) == (v - 0) \div 1
ApplyPreprocessing(xs) == [p \in 1 .. Len(xs) |-> Standardise(xs[p])]

\* exp in thousandths, for the logits of the model
ExpT(l) == CASE l = 0 -> 1000 [] l = 1 -> 2718 [] l = 2 -> 7389 [] OTHER -> 20086

RECURSIVE SumExp(_, _)
SumExp(row, k) == IF k = 0 THEN 0 ELSE ExpT(row[k]) + SumExp(row, k - 1)

\* softmax(dim=1) of one row, as exact fractions <<numerator, denominator>>
Softmax(row) == [c \in 1 .. Len(row) |-> <<ExpT(row[c]), SumExp(row, Len(row))>>]

\* (outputs >= self.threshold).type(torch.int) for one entry; thr in hundredths
VoteOf_strict(p, thr) == IF p[1] * 100 > thr * p[2] THEN 1 ELSE 0
VoteOf(p, thr) == IF p[1] * 100 >= thr * p[2] THEN 1 ELSE 0

\* _predict_classifier's return value for the model outputs outs
PredictClassifier(outs, thr) ==
    [s \in 1 .. Len(outs) |->
        [c \in 1 .. NbClasses |-> VoteOf(Softmax(outs[s])[c], thr)]]

\* The keyword arguments __init__ forwards to super().__init__
SuperInitKwargs_default(a) ==
    [optimizer |-> a.optimizer, ablation_type |-> a.ablation_type,
     ablation_size |-> a.ablation_size, threshold |-> 50]
SuperInitKwargs(a) ==
    [optimizer |-> a.optimizer, ablation_type |-> a.ablation_type,
     ablation_size |-> a.ablation_size, threshold |-> a.threshold]

\* if self._optimizer is None
OptimizerMissing_never(opt) == FALSE
OptimizerMissing(opt) == opt = None

\* The model mode when the missing-optimizer error is raised:
\* self._model.train(mode=training_mode) has already run.
ModeOnRaise_unset(old, tm) == old
ModeOnRaise(old, tm) == tm

\* predict hands training_mode=False to the mixin
PredictTrainingMode_true == TRUE
PredictTrainingMode == FALSE

\* The statement that follows each statement of the batch body.
StageAfter_late_zero(p) ==
    CASE p = "ablate" -> "forward"
      [] p = "forward" -> "loss"
      [] p = "loss" -> "backward"
      [] p = "backward" -> "zero_grad"
      [] p = "zero_grad" -> "step"
      [] OTHER -> "batch"
StageAfter(p) ==
    CASE p = "ablate" -> "zero_grad"
      [] p = "zero_grad" -> "forward"
      [] p = "forward" -> "loss"
      [] p = "loss" -> "backward"
      [] p = "backward" -> "step"
      [] OTHER -> "batch"

(* ------------------------------------------------------------------ *)
(* State machine                                                       *)
(* ------------------------------------------------------------------ *)

CtorArgs ==
    {[optimizer |-> o, ablation_type |-> a[1], ablation_size |-> a[2], threshold |-> t] :
        o \in {None, "opt"}, a \in Ablations, t \in Thresholds}

NoFitLocals ==
    /\ x_preprocessed = <<>> /\ y_preprocessed = <<>> /\ num_batch = 0
    /\ ind = <<>> /\ epoch = 0 /\ m = 0 /\ i_batch = <<>> /\ o_batch = <<>>
    /\ batches = <<>>

NoPredictLocals ==
    /\ predict_mode = FALSE /\ pos = 0 /\ outputs = <<>> /\ votes = <<>>

NoArgs ==
    /\ x = <<>> /\ y = <<>> /\ batch_size = 1 /\ nb_epochs = 0
    /\ training_mode = FALSE

\* The object after __init__: the superclass stores the forwarded keywords.
Init ==
    /\ init_args \in CtorArgs
    /\ optimizer = SuperInitKwargs(init_args).optimizer
    /\ ablation_type = SuperInitKwargs(init_args).ablation_type
    /\ ablation_size = SuperInitKwargs(init_args).ablation_size
    /\ threshold = SuperInitKwargs(init_args).threshold
    /\ mode \in BOOLEAN
    /\ grad_acc = 0
    /\ pc = "idle"
    /\ log = <<>>
    /\ NoArgs /\ NoFitLocals /\ NoPredictLocals

\* the arrays x and y of a training set d
Inputs(d) == [p \in 1 .. Len(d) |-> d[p][1]]
Targets(d) == [p \in 1 .. Len(d) |-> d[p][2]]

FitArgs(xs, ys, bs, ep, tm) ==
    /\ x' = xs /\ y' = ys /\ batch_size' = bs /\ nb_epochs' = ep
    /\ training_mode' = tm

\* fit, lines 132-135, with no optimizer: the mode is set, then the error is raised.
FitRaise ==
    /\ pc = "idle"
    /\ OptimizerMissing(optimizer)
    /\ \E n \in 0 .. MaxN, bs \in 1 .. MaxBatch, ep \in 0 .. MaxEpochs, tm \in BOOLEAN :
         \E d \in [1 .. n -> TrainPool] :
            /\ FitArgs(Inputs(d), Targets(d), bs, ep, tm)
            /\ mode' = ModeOnRaise(mode, tm)
    /\ pc' = "raised"
    /\ UNCHANGED <<attrs, grad_acc, fitLocals, log, predictLocals>>

\* fit, lines 132-146, with an optimizer: mode, labels, preprocessing, num_batch, ind.
FitBegin ==
    /\ pc = "idle"
    /\ ~OptimizerMissing(optimizer)
    /\ \E n \in 0 .. MaxN, bs \in 1 .. MaxBatch, ep \in 0 .. MaxEpochs, tm \in BOOLEAN :
         \E d \in [1 .. n -> TrainPool] :
            /\ FitArgs(Inputs(d), Targets(d), bs, ep, tm)
            /\ mode' = tm
            /\ x_preprocessed' = ApplyPreprocessing(Inputs(d))
            /\ y_preprocessed' = ReduceLabels(TransformLabels(Targets(d)))
            /\ num_batch' = NumBatch(n, bs)
            /\ ind' = Arange(n)
    /\ epoch' = 0
    /\ pc' = "epoch"
    /\ UNCHANGED <<attrs, grad_acc, m, i_batch, o_batch, batches, log, predictLocals>>

\* for _ in range(nb_epochs): random.shuffle(ind)
ShuffleEpoch ==
    /\ pc = "epoch"
    /\ epoch < nb_epochs
    /\ \E js \in JChoices(Len(ind)) : ind' = Shuffle(ind, js)
    /\ m' = 0
    /\ batches' = <<>>
    /\ log' = Append(log, "shuffle")
    /\ pc' = "batch"
    /\ UNCHANGED <<attrs, mode, grad_acc, x, y, batch_size, nb_epochs, training_mode,
                   x_preprocessed, y_preprocessed, num_batch, epoch, i_batch, o_batch,
                   predictLocals>>

\* the epoch loop is exhausted: fit returns
FitReturn ==
    /\ pc = "epoch"
    /\ epoch >= nb_epochs
    /\ pc' = "returned"
    /\ UNCHANGED <<attrs, mode, grad_acc, x, y, batch_size, nb_epochs, training_mode,
                   fitLocals, log, predictLocals>>

\* lines 154-159: select the batch, copy, ablate, select the labels
TrainBatch ==
    /\ pc = "batch"
    /\ m < num_batch
    /\ LET idx == InputSlice(ind, m, batch_size)
           buf == TakeBatch(x_preprocessed, idx)
           abl == AblatorForward(buf.data, ablation_size)
       IN  /\ x_preprocessed' = WriteThrough(x_preprocessed, buf.base, abl)
           /\ i_batch' = abl
           /\ o_batch' = Gather(y_preprocessed, LabelSlice(ind, m, batch_size))
           /\ batches' = Append(batches, idx)
    /\ log' = Append(log, "ablate")
    /\ pc' = StageAfter("ablate")
    /\ UNCHANGED <<attrs, mode, grad_acc, x, y, batch_size, nb_epochs, training_mode,
                   y_preprocessed, num_batch, ind, epoch, m, predictLocals>>

\* the batch loop is exhausted: next epoch
EndEpoch ==
    /\ pc = "batch"
    /\ m >= num_batch
    /\ epoch' = epoch + 1
    /\ pc' = "epoch"
    /\ UNCHANGED <<attrs, mode, grad_acc, x, y, batch_size, nb_epochs, training_mode,
                   x_preprocessed, y_preprocessed, num_batch, ind, m, i_batch, o_batch,
                   batches, log, predictLocals>>

Stage(name, newGrad, newM) ==
    /\ pc = name
    /\ log' = Append(log, name)
    /\ grad_acc' = newGrad
    /\ m' = newM
    /\ pc' = StageAfter(name)
    /\ UNCHANGED <<attrs, mode, x, y, batch_size, nb_epochs, training_mode,
                   x_preprocessed, y_preprocessed, num_batch, ind, epoch, i_batch,
                   o_batch, batches, predictLocals>>

\* self._optimizer.zero_grad()
ZeroGrad == Stage("zero_grad", 0, m)

\* model_outputs = self._model(i_batch)
Forward == Stage("forward", grad_acc, m)

\* loss = self._loss(model_outputs[-1], o_batch)
Loss == Stage("loss", grad_acc, m)

\* loss.backward(), or scaled_loss.backward() under amp: one backward either way
Backward == Stage("backward", grad_acc + 1, m)

\* self._optimizer.step(), the last statement of the batch body
OptimizerStep == Stage("step", grad_acc, m + 1)

\* predict, line 102: delegate to the mixin with training_mode=False
Predict ==
    /\ pc = "idle"
    /\ \E k \in 1 .. MaxPredict, bs \in 1 .. MaxBatch :
         \E xs \in [1 .. k -> XVals] :
            /\ x' = xs
            /\ batch_size' = bs
    /\ predict_mode' = PredictTrainingMode
    /\ pos' = 0
    /\ pc' = "mixin"
    /\ UNCHANGED <<attrs, mode, grad_acc, y, nb_epochs, training_mode, fitLocals, log,
                   outputs, votes>>

\* The mixin ablates a copy of x at the next position and calls _predict_classifier
\* (lines 86-90): PyTorchClassifier.predict sets the mode and runs the forward pass.
\* net is what the network computes for each ablated sample at this position.
PredictAblation ==
    /\ pc = "mixin"
    /\ pos < MaxPositions
    /\ \E net \in [XVals -> [1 .. NbClasses -> Logits]] :
          LET outs == [s \in 1 .. Len(x) |-> net[x[s]]]
          IN  /\ outputs' = outs
              /\ votes' = PredictClassifier(outs, threshold)
    /\ mode' = predict_mode
    /\ log' = log \o <<"ablate", "forward">>
    /\ pos' = pos + 1
    /\ UNCHANGED <<attrs, grad_acc, pc, x, y, batch_size, nb_epochs, training_mode,
                   fitLocals, predict_mode>>

\* the mixin has visited every position: predict returns
PredictReturn ==
    /\ pc = "mixin"
    /\ pos >= MaxPositions
    /\ pc' = "predicted"
    /\ UNCHANGED <<attrs, mode, grad_acc, x, y, batch_size, nb_epochs, training_mode,
                   fitLocals, log, predictLocals>>

\* The call is over: its frame and the caller's references are dropped.
CallerResumes ==
    /\ pc \in {"raised", "returned", "predicted"}
    /\ pc' = "idle"
    /\ log' = <<>>
    /\ x' = <<>> /\ y' = <<>> /\ batch_size' = 1 /\ nb_epochs' = 0
    /\ training_mode' = FALSE
    /\ x_preprocessed' = <<>> /\ y_preprocessed' = <<>> /\ num_batch' = 0
    /\ ind' = <<>> /\ epoch' = 0 /\ m' = 0 /\ i_batch' = <<>> /\ o_batch' = <<>>
    /\ batches' = <<>>
    /\ predict_mode' = FALSE /\ pos' = 0 /\ outputs' = <<>> /\ votes' = <<>>
    /\ UNCHANGED <<attrs, mode, grad_acc>>

Next ==
    \/ FitRaise
    \/ FitBegin
    \/ ShuffleEpoch
    \/ FitReturn
    \/ TrainBatch
    \/ EndEpoch
    \/ ZeroGrad
    \/ Forward
    \/ Loss
    \/ Backward
    \/ OptimizerStep
    \/ Predict
    \/ PredictAblation
    \/ PredictReturn
    \/ CallerResumes

Spec == Init /\ [][Next]_vars

(* ------------------------------------------------------------------ *)
(* Properties                                                          *)
(* ------------------------------------------------------------------ *)

InFit == pc \in {"epoch", "batch", "zero_grad", "forward", "loss", "backward",
                 "step", "returned"}
InBatchBody == pc \in {"zero_grad", "forward", "loss", "backward", "step"}
InPredict == pc \in {"mixin", "predicted"}

Count(e) == Cardinality({i \in DOMAIN log : log[i] = e})
CeilDiv(n, bs) == (n + bs - 1) \div bs
TrainingEvents == {"ablate", "zero_grad", "forward", "loss", "backward", "step"}
BatchOrder == <<"ablate", "zero_grad", "forward", "loss", "backward", "step">>

\* The i-th call of a fit whose epochs have nb batches each.
ExpectedEvent(i, nb) ==
    LET j == (i - 1) % (1 + Len(BatchOrder) * nb)
    IN  IF j = 0 THEN "shuffle" ELSE BatchOrder[((j - 1) % Len(BatchOrder)) + 1]

RECURSIVE Flatten(_)
Flatten(ss) == IF ss = <<>> THEN <<>> ELSE Head(ss) \o Flatten(Tail(ss))

NoDuplicates(s) == \A p, q \in DOMAIN s : s[p] = s[q] => p = q
IsPermutation(s, n) ==
    /\ Len(s) = n
    /\ {s[p] : p \in DOMAIN s} = 0 .. (n - 1)

\* The vote the specification asks for: 1 iff exp(o_c) / (exp(o_1) + exp(o_2)) >= thr / 100.
ExpectedVote(row, c, thr) ==
    IF 100 * ExpT(row[c]) >= thr * (ExpT(row[1]) + ExpT(row[2])) THEN 1 ELSE 0

\* C1: a fit call on an estimator without optimizer always ends in the error, never
\* enters the training loop, and at the error no call has been made on the ablator,
\* the model, the loss or the optimizer.
C1_FitWithoutOptimizerRaises ==
    /\ optimizer = None => ~InFit
    /\ pc = "raised" => /\ optimizer = None
                        /\ \A i \in DOMAIN log : log[i] \notin TrainingEvents
                        /\ i_batch = <<>> /\ o_batch = <<>>

C1_Witness ==
    /\ pc = "raised"
    /\ Len(x) = MaxN
    /\ nb_epochs > 0

\* C2: the calls of a fit come in the fixed order shuffle, then per batch
\* ablate, zero_grad, forward, loss, backward, step; at most one backward pass is
\* ever accumulated in the gradients (they are zeroed between two backward passes).
C2_FitEventOrder ==
    /\ grad_acc <= 1
    /\ InFit => \A i \in DOMAIN log :
                   log[i] = ExpectedEvent(i, CeilDiv(Len(x), batch_size))

C2_Witness ==
    /\ pc = "returned"
    /\ nb_epochs = 2
    /\ Len(x) = 3
    /\ batch_size = 2
    /\ Len(log) = 2 * (1 + 6 * 2)

\* C3: _predict_classifier returns one 0/1 entry per (sample, class), 1 exactly when
\* the softmax probability of the class reaches the threshold; a sample with every
\* probability below the threshold gets an all-zero row.
C3_VotesAreThresholdedSoftmax ==
    (InPredict /\ pos > 0) =>
        /\ Len(votes) = Len(x)
        /\ \A s \in 1 .. Len(votes) :
              /\ DOMAIN votes[s] = 1 .. NbClasses
              /\ \A c \in 1 .. NbClasses :
                    /\ votes[s][c] \in {0, 1}
                    /\ votes[s][c] = ExpectedVote(outputs[s], c, threshold)

C3_Witness ==
    /\ InPredict
    /\ votes = << <<0, 0>>, <<1, 0>> >>

\* C4: predict hands training_mode=False to the mixin, whatever preceded it, the model
\* is in evaluation mode once it has run, and a predict call makes no zero_grad,
\* backward or optimizer step call.
C4_PredictIsInferenceOnly ==
    InPredict =>
        /\ predict_mode = FALSE
        /\ pos > 0 => mode = FALSE
        /\ \A i \in DOMAIN log : log[i] \notin {"zero_grad", "backward", "step"}

C4_Witness ==
    /\ pc = "predicted"
    /\ grad_acc = 1
    /\ Len(log) = 2 * MaxPositions

\* C5: the attributes ablation_type, ablation_size and threshold equal the
\* constructor's arguments in every state, and every vote is taken against the
\* constructor's threshold.
C5_HyperparametersUnchanged ==
    /\ ablation_type = init_args.ablation_type
    /\ ablation_size = init_args.ablation_size
    /\ threshold = init_args.threshold
    /\ (InPredict /\ pos > 0) =>
          \A s \in DOMAIN votes : \A c \in 1 .. NbClasses :
             votes[s][c] = ExpectedVote(outputs[s], c, init_args.threshold)

C5_Witness ==
    /\ pc = "predicted"
    /\ grad_acc = 1
    /\ init_args.threshold = 75
    /\ init_args.ablation_size = 2

\* C6: a fit never makes more than nb_epochs * ceil(n / batch_size) ablator, zero_grad,
\* backward or optimizer step calls, and has made exactly that many of each when it
\* returns (none when n = 0 or nb_epochs = 0).
C6_FitStepCount ==
    InFit =>
        LET total == nb_epochs * CeilDiv(Len(x), batch_size)
        IN  \A e \in {"ablate", "zero_grad", "backward", "step"} :
               /\ Count(e) <= total
               /\ pc = "returned" => Count(e) = total

C6_Witness ==
    /\ pc = "returned"
    /\ Len(x) = 3
    /\ batch_size = 2
    /\ nb_epochs = 2
    /\ Count("step") = 4

\* C7: ind is always a permutation of 0..n-1; the batches of an epoch are non-empty,
\* pairwise disjoint, of batch_size samples each except the last, which holds
\* n - (ceil(n / batch_size) - 1) * batch_size, and together cover every sample.
C7_BatchesPartition ==
    InFit =>
        LET n == Len(x)
            nb == CeilDiv(n, batch_size)
        IN  /\ IsPermutation(ind, n)
            /\ Len(batches) <= nb
            /\ NoDuplicates(Flatten(batches))
            /\ \A b \in DOMAIN batches :
                  /\ Len(batches[b]) >= 1
                  /\ b < nb => Len(batches[b]) = batch_size
                  /\ b = nb => Len(batches[b]) = n - (nb - 1) * batch_size
            /\ (pc \in {"epoch", "returned"} /\ epoch > 0) =>
                  IsPermutation(Flatten(batches), n)

C7_Witness ==
    /\ pc = "epoch"
    /\ epoch = 2
    /\ Len(x) = 3
    /\ batch_size = 2
    /\ ind # <<0, 1, 2>>
    /\ Len(batches) = 2

\* C8: in the body of every batch, row p of the model's input is the ablated sample
\* ind[m * batch_size + p] and row p of the labels is the label of that same sample.
C8_LabelsMatchInputs ==
    InBatchBody =>
        LET idx == batches[Len(batches)]
        IN  /\ idx = SubSeq(ind, m * batch_size + 1, m * batch_size + Len(idx))
            /\ Len(i_batch) = Len(idx)
            /\ Len(o_batch) = Len(idx)
            /\ \A p \in DOMAIN idx :
                  /\ i_batch[p] = 10 * ablation_size + x[idx[p] + 1]
                  /\ o_batch[p] = y[idx[p] + 1]

C8_Witness ==
    /\ pc = "loss"
    /\ Len(o_batch) = 2
    /\ o_batch[1] # o_batch[2]
    /\ ind[1] # 0

\* C9: during a fit the preprocessed inputs and labels keep the values of the
\* caller's arrays: neither the ablation nor a training step writes to them.
C9_TrainingDataUntouched ==
    InFit =>
        /\ Len(x_preprocessed) = Len(x)
        /\ \A p \in DOMAIN x : x_preprocessed[p] = x[p]
        /\ Len(y_preprocessed) = Len(y)
        /\ \A p \in DOMAIN y : y_preprocessed[p] = y[p]

C9_Witness ==
    /\ pc = "zero_grad"
    /\ epoch = 1
    /\ Len(x) = 3
    /\ i_batch # <<>>
    /\ \A p \in DOMAIN i_batch : i_batch[p] > 10

\* C10: at the end of every fit call, by return or by the missing-optimizer error,
\* and throughout the call, the model mode is the call's training_mode.
C10_FitSetsModeEvenWhenRaising ==
    (InFit \/ pc = "raised") => mode = training_mode

C10_Witness ==
    /\ pc = "raised"
    /\ training_mode = TRUE
    /\ mode = TRUE
    /\ log = <<>>

====
